---- MODULE Spec2Model ----
(***************************************************************************)
(* Model of lazydocs' docstring-to-Markdown transpiler, _doc2md            *)
(* (src/src/lazydocs/generation.py).  A string is a sequence of            *)
(* one-character strings; the docstring is the sequence of its lines       *)
(* (doc.split("\n")); out is the Python list of output fragments.          *)
(***************************************************************************)
EXTENDS Integers, Sequences, FiniteSets, TLC

VARIABLES doc, pc, i, blockindent, argindent, out, arg_list, literal_block,
          md_code_snippet, quote_block, snippet_indent, content

\* generate_docs: its arguments, its position (gpc, path_no, module_no), the
\* ignore list, the generator's generated_objects, the files written and
\* what was printed
VARIABLES paths, validate, overview_file, stdout_mode, gpc, path_no,
          module_no, ignored_modules, generated_objects, written, printed

\* direct calls on a MarkdownGenerator: the unit the last call was given and
\* the text it returned (each empty before the first call)
VARIABLES called, returned

docvars == <<doc, pc, i, blockindent, argindent, out, arg_list, literal_block,
             md_code_snippet, quote_block, snippet_indent, content>>

callvars == <<called, returned>>

genvars == <<paths, validate, overview_file, stdout_mode, gpc, path_no,
             module_no, ignored_modules, generated_objects, written, printed,
             called, returned>>

vars == <<doc, pc, i, blockindent, argindent, out, arg_list, literal_block,
          md_code_snippet, quote_block, snippet_indent, content,
          paths, validate, overview_file, stdout_mode, gpc, path_no,
          module_no, ignored_modules, generated_objects, written, printed,
          called, returned>>

\* generate_docs is not running
GenIdle ==
  /\ paths = << >>
  /\ validate = FALSE
  /\ overview_file = FALSE
  /\ stdout_mode = FALSE
  /\ gpc = "idle"
  /\ path_no = 1
  /\ module_no = 1
  /\ ignored_modules = << >>
  /\ generated_objects = << >>
  /\ written = << >>
  /\ printed = << >>
  /\ called = << >>
  /\ returned = << >>

(***************************************************************************)
(* Bounds of the model.                                                    *)
(***************************************************************************)
MaxLines == 4
MaxIndent == 2
\* paths given to generate_docs
MaxPaths == 3
\* entries of generated_objects up to which a further direct call is made
MaxEntries == 5
\* lines of a docstring where several calls follow each other
MaxCallLines == 2

(***************************************************************************)
(* Characters and the str methods the code uses.                           *)
(***************************************************************************)
UpperCase == <<"A","B","C","D","E","F","G","H","I","J","K","L","M",
               "N","O","P","Q","R","S","T","U","V","W","X","Y","Z">>
LowerCase == <<"a","b","c","d","e","f","g","h","i","j","k","l","m",
               "n","o","p","q","r","s","t","u","v","w","x","y","z">>
Digits == {"0","1","2","3","4","5","6","7","8","9"}

UpperSet == {UpperCase[k] : k \in 1..26}
LowerOf == [c \in UpperSet |-> LowerCase[CHOOSE k \in 1..26 : UpperCase[k] = c]]

\* str.lower() on one character
Lower(c) == IF c \in UpperSet THEN LowerOf[c] ELSE c

LowerStr(s) == [k \in 1..Len(s) |-> Lower(s[k])]

\* whitespace as str.strip / \s see it (the alphabet has space and newline)
IsSpace(c) == c \in {" ", "\n"}

\* the regex class [\w\[\]_]
WordChars ==
  UpperSet \cup {LowerCase[k] : k \in 1..26} \cup Digits \cup {"_", "[", "]"}

IsWordChar(c) == c \in WordChars

\* s[n:]
Drop(s, n) == IF n >= Len(s) THEN << >> ELSE SubSeq(s, n + 1, Len(s))
\* s[:n]
Take(s, n) == IF n >= Len(s) THEN s ELSE SubSeq(s, 1, n)

\* number of leading characters of s that satisfy the class
RECURSIVE LeadingSpaces(_)
LeadingSpaces(s) ==
  IF s = << >> \/ ~IsSpace(Head(s)) THEN 0 ELSE 1 + LeadingSpaces(Tail(s))

RECURSIVE LeadingWord(_)
LeadingWord(s) ==
  IF s = << >> \/ ~IsWordChar(Head(s)) THEN 0 ELSE 1 + LeadingWord(Tail(s))

RECURSIVE LeadingStars(_)
LeadingStars(s) ==
  IF s = << >> \/ Head(s) # "*" THEN 0 ELSE 1 + LeadingStars(Tail(s))

LStrip(s) == Drop(s, LeadingSpaces(s))

RECURSIVE RStrip(_)
RStrip(s) ==
  IF s = << >> \/ ~IsSpace(s[Len(s)]) THEN s ELSE RStrip(SubSeq(s, 1, Len(s) - 1))

Strip(s) == RStrip(LStrip(s))

StartsWith(s, p) == Len(s) >= Len(p) /\ SubSeq(s, 1, Len(p)) = p
EndsWith(s, p) == Len(s) >= Len(p) /\ SubSeq(s, Len(s) - Len(p) + 1, Len(s)) = p

\* s.replace(old, new): every non-overlapping occurrence, left to right
RECURSIVE Replace(_, _, _)
Replace(s, old, new) ==
  IF s = << >> THEN << >>
  ELSE IF StartsWith(s, old) THEN new \o Replace(Drop(s, Len(old)), old, new)
  ELSE <<Head(s)>> \o Replace(Tail(s), old, new)

\* " " * n
RECURSIVE Spaces(_)
Spaces(n) == IF n <= 0 THEN << >> ELSE <<" ">> \o Spaces(n - 1)

\* "".join(fragments)
RECURSIVE Join(_)
Join(fs) == IF fs = << >> THEN << >> ELSE Head(fs) \o Join(Tail(fs))

\* s.splitlines(): split at newlines, no empty last line after a final newline
RECURSIVE SplitFrom(_, _)
SplitFrom(s, cur) ==
  IF s = << >> THEN (IF cur = << >> THEN << >> ELSE <<cur>>)
  ELSE IF Head(s) = "\n" THEN <<cur>> \o SplitFrom(Tail(s), << >>)
  ELSE SplitFrom(Tail(s), Append(cur, Head(s)))

SplitLines(s) == SplitFrom(s, << >>)

\* "\n".join(ls)
RECURSIVE JoinNL(_)
JoinNL(ls) ==
  IF ls = << >> THEN << >>
  ELSE IF Len(ls) = 1 THEN ls[1]
  ELSE ls[1] \o <<"\n">> \o JoinNL(Tail(ls))

(***************************************************************************)
(* String constants of the code.                                           *)
(***************************************************************************)
\* the backtick character (a TLA+ string cannot hold it)
BT == "bt"
Fence == <<BT,BT,BT>>
DoctestMark == <<">",">",">">>
DoubleColon == <<":",":">>
LiteralOpen == <<":","\n",BT,BT,BT>>
LiteralClose == <<BT,BT,BT,"\n">>
NL == <<"\n">>
ParagraphBreak == <<"\n","\n">>
QuoteMark == <<"\n",">">>
BoldOpen == <<"<","b",">",BT>>
BoldClose == <<BT,"<","/","b",">">>

\* the alternatives of _RE_BLOCKSTART_LIST, _RE_BLOCKSTART_TEXT, _RE_QUOTE_TEXT
ListKeywords ==
  { <<"a","r","g","s",":">>,
    <<"a","r","g",":">>,
    <<"a","r","g","u","m","e","n","t","s",":">>,
    <<"p","a","r","a","m","e","t","e","r","s",":">>,
    <<"k","w","a","r","g","s",":">>,
    <<"a","t","t","r","i","b","u","t","e","s",":">>,
    <<"r","e","t","u","r","n","s",":">>,
    <<"y","i","e","l","d","s",":">>,
    <<"r","a","i","s","e","s",":">> }
TextKeywords ==
  { <<"e","x","a","m","p","l","e","s",":">>,
    <<"e","x","a","m","p","l","e",":">>,
    <<"t","o","d","o",":">> }
QuoteKeywords ==
  { <<"n","o","t","e","s",":">>,
    <<"n","o","t","e",":">> }

\* re.match of (K1|K2|...).{0,2}$ with re.IGNORECASE
KeywordMatch(keywords, line) ==
  LET l == LowerStr(line)
  IN  \E k \in keywords :
         /\ Len(line) - Len(k) <= 2
         /\ StartsWith(l, k)

BlockstartListMatch(line) == KeywordMatch(ListKeywords, line)
BlockstartTextMatch(line) == KeywordMatch(TextKeywords, line)
QuoteTextMatch(line) == KeywordMatch(QuoteKeywords, line)

IsHeader(line) ==
  BlockstartListMatch(line) \/ BlockstartTextMatch(line) \/ QuoteTextMatch(line)

(***************************************************************************)
(* _RE_TYPED_ARGSTART and _RE_ARGSTART, matched at the start of the line   *)
(* (re.match), with the groups the substitution uses.                      *)
(***************************************************************************)
\* least m >= from with s[m..m+1] = "):" and at least two characters after it
\* (the lazy (.*?) followed by "\):(.{2,})"); 0 if there is none
RECURSIVE TypeEnd(_, _)
TypeEnd(s, from) ==
  IF from + 3 > Len(s) THEN 0
  ELSE IF s[from] = ")" /\ s[from + 1] = ":" THEN from
  ELSE TypeEnd(s, from + 1)

\* ([\w\[\]_]{1,}?)\s*?\((.*?)\):(.{2,})
TypedArgstart(line) ==
  LET n == LeadingWord(line)
      w == LeadingSpaces(Drop(line, n))
      p == n + w + 1
      e == IF p <= Len(line) THEN TypeEnd(line, p + 1) ELSE 0
      ok == n >= 1 /\ p <= Len(line) /\ line[p] = "(" /\ e > 0
  IN  [ok |-> ok,
       name |-> Take(line, n),
       type |-> IF ok THEN SubSeq(line, p + 1, e - 1) ELSE << >>,
       rest |-> IF ok THEN Drop(line, e + 1) ELSE << >>]

\* (\**[\w\[\]_]{1,}?)\s*?:(.{2,})?
Argstart(line) ==
  LET st == LeadingStars(line)
      n == LeadingWord(Drop(line, st))
      w == LeadingSpaces(Drop(line, st + n))
      p == st + n + w + 1
      ok == n >= 1 /\ p <= Len(line) /\ line[p] = ":"
  IN  [ok |-> ok,
       name |-> Take(line, st + n),
       rest |-> IF ok THEN Drop(line, p) ELSE << >>]

\* _RE_TYPED_ARGSTART.sub(r"<b>`\1`</b> (\2): \3", line), on a matching line
TypedArgSub(line) ==
  LET m == TypedArgstart(line)
  IN  BoldOpen \o m.name \o BoldClose \o <<" ", "(">> \o m.type
        \o <<")", ":", " ">> \o m.rest

\* _RE_ARGSTART.sub(r"<b>`\1`</b>: \2", line), on a matching line
ArgSub(line) ==
  LET m == Argstart(line)
  IN  BoldOpen \o m.name \o BoldClose \o <<":", " ">> \o m.rest

(***************************************************************************)
(* The body of the loop over the lines.  A frame is the set of the local   *)
(* variables of _doc2md while one line is processed: the parse state, the  *)
(* current line and its indent.                                            *)
(***************************************************************************)
\* lines 373-377: the indent, and the line without its indentation
LineIndent(raw) == Len(raw) - Len(LStrip(raw))

Unindent(raw, code, lit, sindent) ==
  IF ~code /\ ~lit THEN LStrip(raw) ELSE Drop(raw, sindent)

\* lines 379-381: doctest support
Doctest(line) ==
  IF StartsWith(line, DoctestMark)
  THEN Replace(line, DoctestMark, Fence) \o Fence
  ELSE line

Emit(f, frag) == [f EXCEPT !.out = Append(f.out, frag)]

\* lines 388-404: a section header
Heading(line) == <<"\n", "\n", "*", "*">> \o Strip(line) \o <<"*", "*", "\n">>

HeaderQuote(line) == QuoteTextMatch(line)

\* mutant: the ArgList flag is set by every header
HeaderArgListAnyHeader(line) == IsHeader(line)

HeaderArgList(line) == BlockstartListMatch(line)

HeaderBranch(f) ==
  LET f1 == [f EXCEPT !.blockindent = f.indent, !.quote_block = FALSE]
      f2 == IF f1.literal_block
            THEN [Emit(f1, LiteralClose) EXCEPT !.literal_block = FALSE]
            ELSE f1
      f3 == [Emit(f2, Heading(f.line)) EXCEPT !.arg_list = HeaderArgList(f.line)]
  IN  IF HeaderQuote(f.line)
      THEN [Emit(f3, QuoteMark) EXCEPT !.quote_block = TRUE]
      ELSE f3

\* lines 405-415: a fence delimiter
FenceBranch(f) ==
  LET f1 == IF f.md_code_snippet
            THEN [f EXCEPT !.md_code_snippet = FALSE, !.snippet_indent = 0]
            ELSE [Emit(f, NL) EXCEPT !.md_code_snippet = TRUE,
                                     !.snippet_indent = f.indent]
  IN  Emit(f1, f.line)

\* mutant: the literal-block trigger takes its indentation as blockindent
LiteralBranchSetsBlockindent(f) ==
  [Emit(f, Replace(f.line, DoubleColon, LiteralOpen))
     EXCEPT !.literal_block = TRUE, !.blockindent = f.indent]

\* lines 416-419: a literal-block trigger
LiteralBranch(f) ==
  [Emit(f, Replace(f.line, DoubleColon, LiteralOpen)) EXCEPT !.literal_block = TRUE]

\* mutant: a blank line ends the quote block
QuoteBranchEndsAtBlank(f) ==
  IF Strip(f.line) = << >>
  THEN [f EXCEPT !.quote_block = FALSE]
  ELSE Emit(f, Strip(f.line) \o <<" ">>)

\* mutant: the quote content is appended without the joining space
QuoteBranchNoSpace(f) == Emit(f, Strip(f.line))

\* lines 420-421: content of a quote block
QuoteBranch(f) == Emit(f, Strip(f.line) \o <<" ">>)

\* lines 422-424: a bullet
BulletBranch(f) == Emit(f, NL \o Spaces(f.indent) \o f.line)

\* lines 425-449: a line indented deeper than the block
\* mutant: the bullet does not start a new output line
ArgBulletSameLine(f, text) == Spaces(f.blockindent) \o <<" ", "-", " ">> \o text

ArgBullet(f, text) == NL \o Spaces(f.blockindent) \o <<" ", "-", " ">> \o text

IsTypedArg(f) == f.arg_list /\ ~f.literal_block /\ TypedArgstart(f.line).ok

IsBareArg(f) == f.arg_list /\ ~f.literal_block /\ Argstart(f.line).ok

\* mutant: the comparison with argindent is reversed
IsContinuationReversed(f) == f.arg_list /\ f.indent < f.argindent

IsContinuation(f) == f.arg_list /\ f.indent > f.argindent

DeeperBranch(f) ==
  IF IsTypedArg(f)
  THEN [Emit(f, ArgBullet(f, TypedArgSub(f.line))) EXCEPT !.argindent = f.indent]
  ELSE IF IsBareArg(f)
  THEN [Emit(f, ArgBullet(f, ArgSub(f.line))) EXCEPT !.argindent = f.indent]
  ELSE IF IsContinuation(f)
  THEN Emit(f, <<" ">> \o f.line)
  ELSE Emit(f, f.line)

\* lines 450-457: everything else
PlainBranch(f) ==
  LET f1 == IF Strip(f.line) # << >> /\ f.literal_block
            THEN [f EXCEPT !.line = LiteralClose \o f.line, !.literal_block = FALSE]
            ELSE f
      f2 == IF ~f1.literal_block
            THEN [f1 EXCEPT !.line = f1.line \o <<" ">>]
            ELSE f1
  IN  Emit(f2, f2.line)

\* mutant: the test of a blank line comes before the test of a fenced span
LineBreakBlankFirst(f) ==
  IF Strip(f.line) = << >> /\ ~f.quote_block THEN Emit(f, ParagraphBreak)
  ELSE IF f.md_code_snippet THEN Emit(f, NL)
  ELSE IF f.line = << >> /\ f.quote_block THEN Emit(f, QuoteMark)
  ELSE f

\* mutant: every line that gets no other break is followed by a newline
LineBreakAfterEveryLine(f) ==
  IF f.md_code_snippet THEN Emit(f, NL)
  ELSE IF Strip(f.line) = << >> /\ ~f.quote_block THEN Emit(f, ParagraphBreak)
  ELSE IF f.line = << >> /\ f.quote_block THEN Emit(f, QuoteMark)
  ELSE Emit(f, NL)

\* lines 459-464: the line break after the line
LineBreak(f) ==
  IF f.md_code_snippet THEN Emit(f, NL)
  ELSE IF Strip(f.line) = << >> /\ ~f.quote_block THEN Emit(f, ParagraphBreak)
  ELSE IF f.line = << >> /\ f.quote_block THEN Emit(f, QuoteMark)
  ELSE f

\* mutant: the bullet test comes before the test of a trailing ::
LineKindBulletFirst(f) ==
  IF IsHeader(f.line) THEN "header"
  ELSE IF StartsWith(Strip(f.line), Fence) THEN "fence"
  ELSE IF ~f.quote_block /\ StartsWith(Strip(f.line), <<"-">>) THEN "bullet"
  ELSE IF EndsWith(Strip(f.line), DoubleColon) THEN "literal"
  ELSE IF f.quote_block THEN "quote"
  ELSE IF StartsWith(Strip(f.line), <<"-">>) THEN "bullet"
  ELSE IF f.indent > f.blockindent THEN "deeper"
  ELSE "plain"

\* the kind of a line: the if / elif chain of lines 383-457
LineKind(f) ==
  IF IsHeader(f.line) THEN "header"
  ELSE IF StartsWith(Strip(f.line), Fence) THEN "fence"
  ELSE IF EndsWith(Strip(f.line), DoubleColon) THEN "literal"
  ELSE IF f.quote_block THEN "quote"
  ELSE IF StartsWith(Strip(f.line), <<"-">>) THEN "bullet"
  ELSE IF f.indent > f.blockindent THEN "deeper"
  ELSE "plain"

Branch(f) ==
  LET kind == LineKind(f)
  IN  CASE kind = "header" -> HeaderBranch(f)
        [] kind = "fence" -> FenceBranch(f)
        [] kind = "literal" -> LiteralBranch(f)
        [] kind = "quote" -> QuoteBranch(f)
        [] kind = "bullet" -> BulletBranch(f)
        [] kind = "deeper" -> DeeperBranch(f)
        [] OTHER -> PlainBranch(f)

\* the frame at the top of the loop body, for a parse state and a raw line
Frame(s, raw) ==
  [blockindent |-> s.blockindent, argindent |-> s.argindent, out |-> s.out,
   arg_list |-> s.arg_list, literal_block |-> s.literal_block,
   md_code_snippet |-> s.md_code_snippet, quote_block |-> s.quote_block,
   snippet_indent |-> s.snippet_indent,
   indent |-> LineIndent(raw),
   line |-> Doctest(Unindent(raw, s.md_code_snippet, s.literal_block,
                             s.snippet_indent))]

\* one iteration of the loop
Step(s, raw) ==
  CHOOSE r \in {LineBreak(b) : b \in {Branch(f) : f \in {Frame(s, raw)}}} : TRUE

\* mutant: the lines are trimmed on both sides
ContentStripped(fragments) ==
  CHOOSE c \in {JoinNL([k \in 1..Len(ls) |-> Strip(ls[k])]) :
                  ls \in {SplitLines(j) : j \in {Join(fragments)}}} : TRUE

\* lines 466-469: remove trailing whitespace from lines
Content(fragments) ==
  CHOOSE c \in {JoinNL([k \in 1..Len(ls) |-> RStrip(ls[k])]) :
                  ls \in {SplitLines(j) : j \in {Join(fragments)}}} : TRUE

\* _doc2md as a function of the docstring's lines
Start ==
  [blockindent |-> 0, argindent |-> 1, out |-> << >>, arg_list |-> FALSE,
   literal_block |-> FALSE, md_code_snippet |-> FALSE, quote_block |-> FALSE,
   snippet_indent |-> 0]

RECURSIVE RunFrom(_, _)
RunFrom(s, lines) ==
  IF lines = << >> THEN s ELSE RunFrom(Step(s, Head(lines)), Tail(lines))

Doc2md(lines) == Content(RunFrom(Start, lines).out)

(***************************************************************************)
(* The state machine: _doc2md on one docstring.                            *)
(***************************************************************************)
State ==
  [blockindent |-> blockindent, argindent |-> argindent, out |-> out,
   arg_list |-> arg_list, literal_block |-> literal_block,
   md_code_snippet |-> md_code_snippet, quote_block |-> quote_block,
   snippet_indent |-> snippet_indent]

\* lines 363-370
InitState ==
  /\ pc = "loop"
  /\ i = 1
  /\ blockindent = 0
  /\ argindent = 1
  /\ out = << >>
  /\ arg_list = FALSE
  /\ literal_block = FALSE
  /\ md_code_snippet = FALSE
  /\ quote_block = FALSE
  /\ snippet_indent = 0
  /\ content = << >>
  /\ GenIdle

\* mutant: the loop does not move on to the next line
ProcessLineSameLine ==
  /\ pc = "loop"
  /\ i <= Len(doc)
  /\ \E f \in {Step(State, doc[i])} :
         /\ blockindent' = f.blockindent
         /\ argindent' = f.argindent
         /\ out' = f.out
         /\ arg_list' = f.arg_list
         /\ literal_block' = f.literal_block
         /\ md_code_snippet' = f.md_code_snippet
         /\ quote_block' = f.quote_block
         /\ snippet_indent' = f.snippet_indent
  /\ UNCHANGED <<doc, pc, content, i>>
  /\ UNCHANGED genvars

\* lines 372-464: the next line of the docstring
ProcessLine ==
  /\ pc = "loop"
  /\ i <= Len(doc)
  /\ \E f \in {Step(State, doc[i])} :
         /\ blockindent' = f.blockindent
         /\ argindent' = f.argindent
         /\ out' = f.out
         /\ arg_list' = f.arg_list
         /\ literal_block' = f.literal_block
         /\ md_code_snippet' = f.md_code_snippet
         /\ quote_block' = f.quote_block
         /\ snippet_indent' = f.snippet_indent
  /\ i' = i + 1
  /\ UNCHANGED <<doc, pc, content>>
  /\ UNCHANGED genvars

\* lines 466-469: the end of the loop
Return ==
  /\ pc = "loop"
  /\ i > Len(doc)
  /\ content' = Content(out)
  /\ pc' = "done"
  /\ UNCHANGED <<doc, i, blockindent, argindent, out, arg_list, literal_block,
                 md_code_snippet, quote_block, snippet_indent>>
  /\ UNCHANGED genvars

Next == ProcessLine \/ Return

(***************************************************************************)
(* Docstrings.  A line is an indentation followed by a text.               *)
(***************************************************************************)
Line(n, text) == Spaces(n) \o text

Indented(texts) == { Line(n, t) : n \in 0..MaxIndent, t \in texts }

\* doc is a docstring of 1..MaxLines lines over a set of lines
IsDocOver(lines) == \E n \in 1..MaxLines : doc \in [1..n -> lines]

\* what the processing of the current line appends to out (in a step)
Emitted == SubSeq(out', Len(out) + 1, Len(out'))

\* the current line as the loop body sees it (in a step)
Current == Frame(State, doc[i])

IsBlank(raw) == Strip(raw) = << >>
NonBlank(raw) == Strip(raw) # << >>
IsFenceText(raw) == StartsWith(Strip(raw), Fence)
IsLiteralText(raw) == EndsWith(Strip(raw), DoubleColon)
IsBulletText(raw) == StartsWith(Strip(raw), <<"-">>)
IsDoctestText(raw) == StartsWith(LStrip(raw), DoctestMark)
IsHeaderText(raw) == IsHeader(LStrip(raw))

(***************************************************************************)
(* The texts the docstrings are made of.                                   *)
(***************************************************************************)
ArgsHeader == <<"A","r","g","s",":">>
NoteHeader == <<"N","o","t","e",":">>
TodoHeader == <<"T","o","d","o",":">>
FenceLine == <<BT,BT,BT>>
LiteralLine == <<"a",":",":">>
BulletLine == <<"-"," ","b">>
TypedArgLine == <<"x"," ","(","T",")",":"," ","v">>
BareArgLine == <<"y",":"," ","w">>
PlainLine == <<"t","x","t">>
WordsLine == <<"u"," ","v">>
DoctestLine == <<">",">",">"," ","f">>
BlankLine == << >>

(***************************************************************************)
(* Block flags: docstrings of headers, fences and literal-block triggers.  *)
(***************************************************************************)
BlockLines ==
  Indented({ArgsHeader, NoteHeader}) \cup {Line(0, FenceLine), Line(0, LiteralLine)}

InitBlocks == IsDocOver(BlockLines) /\ InitState

SpecBlocks == InitBlocks /\ [][Next]_vars

ActiveBlocks ==
  {b \in {"ArgList", "Quote", "Literal", "FencedCode"} :
     \/ b = "ArgList" /\ arg_list
     \/ b = "Quote" /\ quote_block
     \/ b = "Literal" /\ literal_block
     \/ b = "FencedCode" /\ md_code_snippet}

\* C1 (as claimed): after any prefix of any docstring at most one of ArgList,
\* Quote, Literal and FencedCode is active.
C1_AtMostOneBlock == Cardinality(ActiveBlocks) <= 1

\* C1 (amended): ArgList and Quote are never active together; Literal and
\* FencedCode are independent flags that can be active beside either.
C1_ArgListExcludesQuote == ~(arg_list /\ quote_block)

\* a quote header was processed after a list header had opened an ArgList
C1_Witness ==
  /\ quote_block
  /\ \E k \in 1..(i - 1) : BlockstartListMatch(LStrip(doc[k]))

(***************************************************************************)
(* Plain text: docstrings of text lines, bullets and blank lines.          *)
(***************************************************************************)
PlainLines ==
  Indented({PlainLine})
    \cup {Line(0, BlankLine), Line(0, WordsLine), Line(0, BulletLine),
          Line(MaxIndent, BulletLine), Line(0, DoctestLine)}

InitPlain == IsDocOver(PlainLines) /\ InitState

SpecPlain == InitPlain /\ [][Next]_vars

\* no line is a section header, a fence delimiter (a >>> line is rewritten
\* into one) or a line ending in ::
C2_Scope ==
  \A k \in 1..Len(doc) :
     /\ ~IsHeaderText(doc[k])
     /\ ~IsFenceText(doc[k]) /\ ~IsDoctestText(doc[k])
     /\ ~IsLiteralText(doc[k])

TrimmedNonBlank(lines) ==
  LET nb == SelectSeq(lines, NonBlank)
  IN  [k \in 1..Len(nb) |-> Strip(nb[k])]

\* C2 (as claimed): without headers, fences and :: lines the output has one
\* line per non-blank input line, the trimmed input lines in their order: no
\* two consecutive non-blank input lines are merged.  (Indentation is left
\* out of the comparison.)
C2_OneOutputLinePerLine ==
  (pc = "done" /\ C2_Scope)
    => TrimmedNonBlank(SplitLines(content)) = TrimmedNonBlank(doc)

\* what a line of plain text contributes to the output
C2_Piece(raw) ==
  IF IsBlank(raw) THEN ParagraphBreak
  ELSE IF IsBulletText(raw) THEN NL \o raw
  ELSE IF LineIndent(raw) > 0 THEN LStrip(raw)
  ELSE raw \o <<" ">>

C2_Expected(lines) == Content([k \in 1..Len(lines) |-> C2_Piece(lines[k])])

\* C2 (amended): without headers, fences and :: lines the output is the
\* input text in its order with consecutive non-blank lines merged into one
\* output line: an unindented line is followed by one space, an indented
\* line loses its indentation and is appended as it is, a bullet starts a new
\* output line with its indentation, a blank line is a paragraph break, and
\* each output line is right-trimmed.
C2_LinesMerged == (pc = "done" /\ C2_Scope) => content = C2_Expected(doc)

\* two consecutive non-blank text lines and a blank line were transpiled
C2_Witness ==
  /\ pc = "done"
  /\ C2_Scope
  /\ \E k \in 1..(Len(doc) - 1) :
        /\ NonBlank(doc[k]) /\ NonBlank(doc[k + 1])
        /\ ~IsBulletText(doc[k]) /\ ~IsBulletText(doc[k + 1])
  /\ \E k \in 1..Len(doc) : IsBlank(doc[k])

(***************************************************************************)
(* Argument lists: a list-style header, argument entries, continuation     *)
(* lines, and a literal trigger and a bullet among them.                   *)
(***************************************************************************)
ArgLines ==
  {Line(0, ArgsHeader), Line(1, ArgsHeader)}
    \cup {Line(n, t) : n \in 1..MaxIndent, t \in {TypedArgLine, BareArgLine}}
    \cup {Line(0, PlainLine), Line(MaxIndent, PlainLine),
          Line(1, LiteralLine), Line(MaxIndent, BulletLine)}

InitArgs == IsDocOver(ArgLines) /\ InitState

SpecArgs == InitArgs /\ [][Next]_vars

AllIn(s, set) == \A k \in 1..Len(s) : s[k] \in set

\* the ways to read line as name (type):rest, the name made of word
\* characters, the type ending at the first "):" that leaves two characters
C3_TypedParts(line) ==
  { [name |-> Take(line, a), type |-> SubSeq(line, p + 1, e - 1),
     rest |-> Drop(line, e + 1)] :
      <<a, p, e>> \in
        { t \in (1..Len(line)) \X (1..Len(line)) \X (1..Len(line)) :
            /\ t[1] < t[2] /\ t[2] < t[3] /\ t[3] + 3 <= Len(line)
            /\ AllIn(Take(line, t[1]), WordChars)
            /\ AllIn(SubSeq(line, t[1] + 1, t[2] - 1), {" "})
            /\ line[t[2]] = "("
            /\ line[t[3]] = ")" /\ line[t[3] + 1] = ":"
            /\ \A q \in (t[2] + 1)..(t[3] - 1) :
                  ~(line[q] = ")" /\ line[q + 1] = ":") } }

\* the ways to read line as name:rest, the name made of stars and then word
\* characters
C3_BareParts(line) ==
  { [name |-> Take(line, a), rest |-> Drop(line, p)] :
      <<a, p>> \in
        { t \in (1..Len(line)) \X (1..Len(line)) :
            /\ t[1] < t[2]
            /\ \E st \in 0..(t[1] - 1) :
                  /\ AllIn(Take(line, st), {"*"})
                  /\ AllIn(SubSeq(line, st + 1, t[1]), WordChars)
            /\ AllIn(SubSeq(line, t[1] + 1, t[2] - 1), {" "})
            /\ line[t[2]] = ":" } }

\* the current line starts an argument: it is handled as indented content of
\* an ArgList with no literal block open and matches one of the two patterns
C3_ArgumentStart ==
  /\ pc = "loop" /\ i <= Len(doc)
  /\ LineKind(Current) = "deeper"
  /\ arg_list /\ ~literal_block
  /\ C3_TypedParts(Current.line) \cup C3_BareParts(Current.line) # {}

C3_Asterisks(line) ==
  { <<"-", " ", "*", "*">> \o m.name \o <<"*", "*", " ", "(">> \o m.type
      \o <<")", ":", " ">> \o LStrip(m.rest) : m \in C3_TypedParts(line) }
  \cup
  { <<"-", " ", "*", "*">> \o m.name \o <<"*", "*", ":", " ">> \o LStrip(m.rest) :
      m \in C3_BareParts(line) }

C3_HtmlBold(line) ==
  IF C3_TypedParts(line) # {}
  THEN { <<" ", "-", " ", "<", "b", ">", BT>> \o m.name \o <<BT, "<", "/", "b", ">">>
           \o <<" ", "(">> \o m.type \o <<")", ":", " ">> \o m.rest :
           m \in C3_TypedParts(line) }
  ELSE { <<" ", "-", " ", "<", "b", ">", BT>> \o m.name \o <<BT, "<", "/", "b", ">">>
           \o <<":", " ">> \o m.rest : m \in C3_BareParts(line) }

\* C3 (as claimed): an argument-start line of an ArgList is emitted on a new
\* output line as "- **name** (type): description" or "- **name**: description".
C3_BoldWithAsterisks ==
  [][C3_ArgumentStart =>
       /\ Emitted # << >>
       /\ Head(Emitted[1]) = "\n"
       /\ LStrip(Emitted[1]) \in C3_Asterisks(Current.line)]_vars

\* C3 (amended): an argument-start line that is handled as indented content of
\* an ArgList (deeper than blockindent, no literal block open, not itself a
\* header, fence or :: line) is emitted on a new output line, after blockindent
\* spaces, as " - <b>`name`</b> (type): " or " - <b>`name`</b>: " followed by
\* everything that follows the colon in the input, its leading space included.
C3_BoldWithHtml ==
  [][C3_ArgumentStart =>
       /\ Emitted # << >>
       /\ \E b \in C3_HtmlBold(Current.line) :
             Emitted[1] = NL \o Spaces(blockindent) \o b]_vars

\* a typed argument and a bare argument were emitted as bullets
C3_Witness ==
  /\ i > 2
  /\ arg_list /\ ~literal_block
  /\ C3_TypedParts(LStrip(doc[i - 2])) # {}
  /\ C3_BareParts(LStrip(doc[i - 1])) # {}
  /\ LineIndent(doc[i - 1]) = argindent /\ argindent > blockindent
  /\ Len(out) >= 2
  /\ \A k \in {Len(out) - 1, Len(out)} :
        StartsWith(LStrip(out[k]), <<"-", " ", "<", "b", ">">>)

IsArgText(raw) ==
  C3_TypedParts(LStrip(raw)) \cup C3_BareParts(LStrip(raw)) # {}

\* an argument was started in the open ArgList and argindent is its indent
C4_ArgumentOpen ==
  /\ arg_list
  /\ \E k \in 1..(i - 1) :
        /\ IsArgText(doc[k]) /\ ~IsHeaderText(doc[k]) /\ ~IsLiteralText(doc[k])
        /\ LineIndent(doc[k]) = argindent
        /\ \A j \in (k + 1)..(i - 1) : ~IsHeaderText(doc[j])

\* C4 (as claimed): in an ArgList, a line that is not a header, fence, :: line
\* or bullet and is indented deeper than argindent is appended, space-prefixed,
\* to the bullet of the argument; it starts no bullet and leaves argindent.
C4_ContinuationAppended ==
  [][(/\ pc = "loop" /\ i <= Len(doc)
      /\ C4_ArgumentOpen
      /\ LineKind(Current) \notin {"header", "fence", "literal", "bullet"}
      /\ Current.indent > argindent)
       => /\ Emitted # << >>
          /\ Emitted[1] = <<" ">> \o Current.line
          /\ argindent' = argindent]_vars

\* the docstring is a list-style header followed by argument entries at one
\* indent deeper than the header, each followed by any number of deeper lines
\* of continuation text
C5_EntryIndent == LineIndent(doc[2])

C5_IsEntry(raw) ==
  /\ LineIndent(raw) = C5_EntryIndent
  /\ IsArgText(raw)
  /\ ~IsLiteralText(raw) /\ ~IsHeaderText(raw)

C5_IsContinuation(raw) ==
  /\ LineIndent(raw) > C5_EntryIndent
  /\ NonBlank(raw)
  /\ ~IsArgText(raw)
  /\ ~IsHeaderText(raw) /\ ~IsFenceText(raw) /\ ~IsDoctestText(raw)
  /\ ~IsLiteralText(raw) /\ ~IsBulletText(raw)

C5_Shape ==
  /\ Len(doc) >= 2
  /\ BlockstartListMatch(LStrip(doc[1]))
  /\ C5_EntryIndent > LineIndent(doc[1])
  /\ C5_IsEntry(doc[2])
  /\ \A k \in 3..Len(doc) : C5_IsEntry(doc[k]) \/ C5_IsContinuation(doc[k])

C5_Entries == {k \in 2..Len(doc) : C5_IsEntry(doc[k])}

\* the output line of the entry at line k: its bullet and, joined by single
\* spaces, the continuation lines that follow it
RECURSIVE C5_Joined(_)
C5_Joined(k) ==
  IF k > Len(doc) \/ C5_IsEntry(doc[k]) THEN << >>
  ELSE <<" ">> \o LStrip(doc[k]) \o C5_Joined(k + 1)

C5_BulletLine(k) ==
  RStrip(Spaces(LineIndent(doc[1]))
           \o (CHOOSE b \in C3_HtmlBold(LStrip(doc[k])) : TRUE)
           \o C5_Joined(k + 1))

C5_IsBulletLine(l) == StartsWith(LStrip(l), <<"-", " ">>)

LiteralLines ==
  Indented({LiteralLine, PlainLine, ArgsHeader}) \cup {Line(0, BlankLine)}

InitLiteral == IsDocOver(LiteralLines) /\ InitState

SpecLiteral == InitLiteral /\ [][Next]_vars

\* line k is the :: line that opened the literal block open before line i,
\* and line i is the first non-blank line after it that is not indented
\* deeper than it (a line that is itself a :: line is left aside)
C6_FirstDedent(k) ==
  /\ IsLiteralText(doc[k]) /\ ~IsHeaderText(doc[k]) /\ ~IsFenceText(doc[k])
  /\ \A j \in (k + 1)..(i - 1) : ~IsLiteralText(doc[j])
  /\ NonBlank(doc[i]) /\ ~IsLiteralText(doc[i])
  /\ LineIndent(doc[i]) <= LineIndent(doc[k])
  /\ \A j \in (k + 1)..(i - 1) :
        IsBlank(doc[j]) \/ LineIndent(doc[j]) > LineIndent(doc[k])

\* C6 (as claimed): the first non-blank line after a :: line that is indented
\* no deeper than the :: line closes the literal block, whatever kind of line
\* it is: a closing fence precedes its text and literal_block is false after.
C6_DedentClosesLiteral ==
  [][(/\ pc = "loop" /\ i <= Len(doc)
      /\ literal_block
      /\ \E k \in 1..(i - 1) : C6_FirstDedent(k))
       => /\ ~literal_block'
          /\ StartsWith(Join(Emitted), LiteralClose)]_vars

\* C7 (as claimed): a line that is a section header once its indentation is
\* stripped, processed while a literal block is open, emits a closing fence
\* and then the bolded heading and leaves no literal block open, at any
\* indentation of the header.
C7_HeaderClosesLiteral ==
  [][(/\ pc = "loop" /\ i <= Len(doc)
      /\ literal_block
      /\ IsHeaderText(doc[i]))
       => /\ ~literal_block'
          /\ Len(Emitted) >= 2
          /\ Emitted[1] = LiteralClose
          /\ Emitted[2] = Heading(doc[i])]_vars

(***************************************************************************)
(* Fenced code: fence delimiters, text and a blank line.                   *)
(***************************************************************************)
FenceLines == Indented({FenceLine, PlainLine}) \cup {Line(0, BlankLine)}

InitFence == IsDocOver(FenceLines) /\ InitState

SpecFence == InitFence /\ [][Next]_vars

\* s without the newlines and the trailing whitespace around it
RECURSIVE DropNewlines(_)
DropNewlines(s) ==
  IF s # << >> /\ Head(s) = "\n" THEN DropNewlines(Tail(s)) ELSE s

Min(a, b) == IF a <= b THEN a ELSE b

\* the previous line was the closing delimiter of a fenced-code span
C8_JustClosed == i > 1 /\ IsFenceText(doc[i - 1]) /\ ~md_code_snippet

\* C8 (as claimed): from the opening fence delimiter through the closing one
\* every line is emitted as it is, without fencedIndent columns of leading
\* whitespace (the opening delimiter's own indentation), and the first line
\* after the closing delimiter starts on a new output line.
C8_FencedVerbatim ==
  [][(pc = "loop" /\ i <= Len(doc)) =>
       /\ (md_code_snippet \/ (~literal_block /\ IsFenceText(doc[i])))
            => LET fenced == IF md_code_snippet THEN snippet_indent
                             ELSE LineIndent(doc[i])
               IN  RStrip(DropNewlines(Join(Emitted)))
                     = RStrip(Drop(doc[i], Min(fenced, LineIndent(doc[i]))))
       /\ (C8_JustClosed /\ NonBlank(doc[i]))
            => Head(Join(Emitted)) = "\n"]_vars

(***************************************************************************)
(* Doctest lines: >>> lines, text and a fence delimiter.                   *)
(***************************************************************************)
DoctestLines ==
  Indented({DoctestLine, PlainLine}) \cup {Line(0, FenceLine), Line(0, BlankLine)}

InitDoctest == IsDocOver(DoctestLines) /\ InitState

SpecDoctest == InitDoctest /\ [][Next]_vars

ParseState ==
  <<md_code_snippet, snippet_indent, literal_block, quote_block, arg_list,
    blockindent, argindent>>

\* the line as the loop body sees it before the doctest rewriting
C10_Seen == Unindent(doc[i], md_code_snippet, literal_block, snippet_indent)

\* C10 (as claimed): a line beginning with >>> is emitted as its remaining
\* content between an opening and a closing fence, and leaves the parse state
\* as it was.
C10_DoctestSingleLine ==
  [][(/\ pc = "loop" /\ i <= Len(doc)
      /\ StartsWith(C10_Seen, DoctestMark))
       => /\ RStrip(DropNewlines(Join(Emitted)))
               = Fence \o Drop(C10_Seen, 3) \o Fence
          /\ ParseState' = ParseState]_vars

(***************************************************************************)
(* Quote blocks: a quote header, a list header, text, blank lines, a       *)
(* bullet, a fence delimiter and a :: line.                                *)
(***************************************************************************)
QuoteLines ==
  {Line(0, NoteHeader), Line(0, ArgsHeader), Line(0, PlainLine),
   Line(MaxIndent, PlainLine), Line(0, BlankLine), Line(MaxIndent, BlankLine),
   Line(0, BulletLine), Line(0, FenceLine), Line(0, LiteralLine)}

InitQuote == IsDocOver(QuoteLines) /\ InitState

SpecQuote == InitQuote /\ [][Next]_vars

\* the current line is content of an open quote block, outside a fence
C9_QuoteContent ==
  /\ pc = "loop" /\ i <= Len(doc)
  /\ quote_block /\ ~md_code_snippet
  /\ LineKind(Current) = "quote"

\* C9 (as claimed): every line after a quote header and before the next
\* header, blank or not, is trimmed and appended with a single space: no line
\* break and no further quote marker is emitted.
C9_QuoteOneParagraph ==
  [][C9_QuoteContent => Emitted = << Strip(doc[i]) \o <<" ">> >>]_vars

\* C9 (amended): a line of quote content is trimmed and appended with a
\* single space, without a line break or quote marker if it is not empty; an
\* empty line (after the removal of its indentation) is followed by a line
\* break and a further quote marker.
C9_QuoteLinesJoined ==
  [][C9_QuoteContent =>
       Emitted = IF Current.line = << >>
                 THEN << <<" ">>, QuoteMark >>
                 ELSE << Strip(doc[i]) \o <<" ">> >>]_vars

\* a text line and then an empty line were folded into an open quote
C9_Witness ==
  /\ i > 3
  /\ quote_block /\ ~md_code_snippet
  /\ QuoteTextMatch(doc[i - 3])
  /\ doc[i - 2] = PlainLine
  /\ doc[i - 1] = BlankLine
  /\ out[Len(out)] = QuoteMark
  /\ out[Len(out) - 2] = PlainLine \o <<" ">>

(***************************************************************************)
(* Section headers: the three header families, a fence delimiter and a     *)
(* :: line.                                                                *)
(***************************************************************************)
HeaderLines ==
  Indented({TodoHeader})
    \cup {Line(0, ArgsHeader), Line(0, NoteHeader), Line(0, FenceLine),
          Line(0, LiteralLine)}

InitHeaders == IsDocOver(HeaderLines) /\ InitState

SpecHeaders == InitHeaders /\ [][Next]_vars

\* the current line is handled as a section header
C11_HeaderLine ==
  pc = "loop" /\ i <= Len(doc) /\ LineKind(Current) = "header"

\* C11 (as claimed): after a section-header line blockindent is the line's
\* indentation, ArgList is active iff the header is list-style, Quote is
\* active iff it is quote-style, and after a text-style header none of
\* ArgList, Quote, Literal and FencedCode is active.
C11_HeaderFamilyDecidesBlock ==
  [][C11_HeaderLine =>
       /\ blockindent' = LineIndent(doc[i])
       /\ arg_list' = BlockstartListMatch(Current.line)
       /\ quote_block' = QuoteTextMatch(Current.line)
       /\ BlockstartTextMatch(Current.line) =>
            ~(arg_list' \/ quote_block' \/ literal_block' \/ md_code_snippet')]_vars

(***************************************************************************)
(* Precedence of the line kinds: lines that match several kinds at once.   *)
(***************************************************************************)
BulletLiteralLine == <<"-"," ","c",":",":">>
FenceLiteralLine == <<BT,BT,BT,":",":">>
HeaderLiteralLine == <<"T","o","d","o",":",":",":">>

OrderLines ==
  {Line(0, NoteHeader), Line(0, HeaderLiteralLine), Line(0, FenceLine),
   Line(0, FenceLiteralLine), Line(0, LiteralLine), Line(0, BulletLiteralLine),
   Line(0, BulletLine), Line(MaxIndent, BulletLine), Line(0, PlainLine),
   Line(MaxIndent, PlainLine)}

InitOrder == IsDocOver(OrderLines) /\ InitState

SpecOrder == InitOrder /\ [][Next]_vars

\* the line kinds in their fixed order
C12_Order ==
  <<"header", "fence", "literal", "quote", "bullet", "deeper", "plain">>

\* the line of frame f (the line as the loop body sees it) has the shape of
\* a kind
C12_Matches(f, kind) ==
  CASE kind = "header" ->
         \/ BlockstartListMatch(f.line)
         \/ BlockstartTextMatch(f.line)
         \/ QuoteTextMatch(f.line)
    [] kind = "fence" -> StartsWith(Strip(f.line), Fence)
    [] kind = "literal" -> EndsWith(Strip(f.line), DoubleColon)
    [] kind = "quote" -> f.quote_block
    [] kind = "bullet" -> StartsWith(Strip(f.line), <<"-">>)
    [] kind = "deeper" -> f.indent > f.blockindent
    [] OTHER -> TRUE

\* the first kind in the order that the line of frame f matches
C12_FirstMatch(f) ==
  LET k == CHOOSE k \in 1..Len(C12_Order) :
             /\ C12_Matches(f, C12_Order[k])
             /\ \A j \in 1..(k - 1) : ~C12_Matches(f, C12_Order[j])
  IN  C12_Order[k]

\* what the handler of a kind does with frame f
C12_Handled(f, kind) ==
  LineBreak(CASE kind = "header" -> HeaderBranch(f)
              [] kind = "fence" -> FenceBranch(f)
              [] kind = "literal" -> LiteralBranch(f)
              [] kind = "quote" -> QuoteBranch(f)
              [] kind = "bullet" -> BulletBranch(f)
              [] kind = "deeper" -> DeeperBranch(f)
              [] OTHER -> PlainBranch(f))

\* C12: every line is handled by one line kind, the first it matches in the
\* order header, fence, literal, quote, bullet, deeper, plain: the parse state
\* and the output after the line are those the handler of that kind gives.
C12_FirstMatchWins ==
  [][(pc = "loop" /\ i <= Len(doc)) =>
       \A f \in {Current} :
         \A h \in {C12_Handled(f, C12_FirstMatch(f))} :
           \A fld \in DOMAIN State : State'[fld] = h[fld]]_vars

\* inside a fenced-code span a quote header was handled as a header and then
\* a bullet line ending in :: as a literal-block trigger
C12_Witness ==
  /\ i = 4
  /\ doc[1] = FenceLine /\ doc[2] = NoteHeader /\ doc[3] = BulletLiteralLine
  /\ md_code_snippet /\ quote_block /\ literal_block
  /\ out[4] = Heading(NoteHeader)
  /\ out[7] = Replace(BulletLiteralLine, DoubleColon, LiteralOpen)

(***************************************************************************)
(* Literal-block triggers: :: lines after a quote header, inside a         *)
(* fenced-code span and with a further :: inside the line.                 *)
(***************************************************************************)
ScopedLiteralLine == <<"b",":",":","c",":",":">>

TriggerLines ==
  {Line(0, NoteHeader), Line(0, FenceLine), Line(0, LiteralLine),
   Line(0, ScopedLiteralLine), Line(0, PlainLine), Line(MaxIndent, LiteralLine)}

InitTrigger == IsDocOver(TriggerLines) /\ InitState

SpecTrigger == InitTrigger /\ [][Next]_vars

\* the current line ends with :: and is neither a header nor a fence delimiter
C13_TriggerLine ==
  /\ pc = "loop" /\ i <= Len(doc)
  /\ IsLiteralText(doc[i])
  /\ ~IsHeader(Current.line) /\ ~IsFenceText(doc[i])

\* the string s holds an opening code fence
C13_HasFence(s) ==
  \E k \in 1..(Len(s) - 2) : SubSeq(s, k, k + 2) = Fence

\* C13 (as claimed): a line ending with :: opens a literal block only outside
\* a fenced-code span and a quote block, and then only its trailing :: is
\* rewritten (to a colon and an opening fence); inside a span or a quote
\* block it leaves literal_block as it is and emits no opening fence.
C13_LiteralOnlyOutsideFenceAndQuote ==
  [][C13_TriggerLine =>
       IF md_code_snippet \/ quote_block
       THEN /\ literal_block' = literal_block
            /\ ~C13_HasFence(Join(Emitted))
       ELSE /\ literal_block'
            /\ Emitted[1] = Take(Current.line, Len(Current.line) - 2)
                              \o LiteralOpen]_vars

(***************************************************************************)
(* Bullets: bullet lines at every indentation, inside every kind of block. *)
(***************************************************************************)
BulletLines ==
  Indented({BulletLine})
    \cup {Line(0, ArgsHeader), Line(0, NoteHeader), Line(0, FenceLine),
          Line(0, LiteralLine), Line(0, PlainLine)}

InitBullets == IsDocOver(BulletLines) /\ InitState

SpecBullets == InitBullets /\ [][Next]_vars

\* the current line starts with - once stripped (and is not a header, a
\* fence delimiter or a :: line, which come first in the order of the kinds)
C14_BulletLine ==
  /\ pc = "loop" /\ i <= Len(doc)
  /\ IsBulletText(doc[i])
  /\ ~IsHeader(Current.line) /\ ~IsFenceText(doc[i]) /\ ~IsLiteralText(doc[i])

\* C14 (as claimed): a line starting with - is emitted on a new output line
\* with exactly the indentation it has in the docstring, whichever blocks are
\* open.
C14_BulletKeepsIndentation ==
  [][C14_BulletLine => Emitted[1] = NL \o doc[i]]_vars

(***************************************************************************)
(* Blank lines: empty and whitespace-only lines inside every kind of       *)
(* block.                                                                  *)
(***************************************************************************)
BlankLines ==
  Indented({BlankLine})
    \cup {Line(0, ArgsHeader), Line(0, NoteHeader), Line(0, FenceLine),
          Line(0, LiteralLine), Line(0, PlainLine)}

InitBlank == IsDocOver(BlankLines) /\ InitState

SpecBlank == InitBlank /\ [][Next]_vars

\* s without its leading spaces
RECURSIVE C15_DropSpaces(_)
C15_DropSpaces(s) ==
  IF s # << >> /\ Head(s) = " " THEN C15_DropSpaces(Tail(s)) ELSE s

\* what a line emits, but for the spaces before it (trailing whitespace of
\* the output line, removed at the end)
C15_Break == C15_DropSpaces(Join(Emitted))

\* C15: a blank line outside a quote block and a fenced-code span emits one
\* paragraph break; a blank line inside a fenced-code span emits one
\* newline, whether or not a quote or literal block is open too.
C15_BlankLineBreak ==
  [][(pc = "loop" /\ i <= Len(doc) /\ IsBlank(doc[i])) =>
       /\ (~quote_block /\ ~md_code_snippet) => C15_Break = ParagraphBreak
       /\ md_code_snippet => C15_Break = NL]_vars

\* a blank line was processed inside a fenced-code span with a literal block
\* open, after one outside both of them
C15_Witness ==
  /\ i = 5
  /\ doc[1] = BlankLine /\ doc[2] = LiteralLine
  /\ doc[3] = FenceLine /\ IsBlank(doc[4])
  /\ md_code_snippet /\ literal_block
  /\ out[Len(out)] = NL
  /\ out[2] = ParagraphBreak

(***************************************************************************)
(* Several calls of _doc2md, one after the other, on docstrings that leave *)
(* every variable of the parse state away from its initial value.  Between *)
(* the calls content is the string the last call returned.                 *)
(***************************************************************************)
CallLines ==
  {Line(1, ArgsHeader), Line(2, BareArgLine), Line(1, NoteHeader),
   Line(1, FenceLine), Line(0, LiteralLine)}

IsCallDoc(d) == \E n \in 1..MaxCallLines : d \in [1..n -> CallLines]

InitCalls == IsCallDoc(doc) /\ InitState

\* mutant: the new call finds blockindent as the last call left it
CallKeepingBlockindent ==
  /\ pc = "done"
  /\ \E n \in 1..MaxCallLines : \E d \in [1..n -> CallLines] : doc' = d
  /\ pc' = "loop"
  /\ i' = 1
  /\ argindent' = 1
  /\ out' = << >>
  /\ arg_list' = FALSE
  /\ literal_block' = FALSE
  /\ md_code_snippet' = FALSE
  /\ quote_block' = FALSE
  /\ snippet_indent' = 0
  /\ UNCHANGED <<blockindent, content>>
  /\ UNCHANGED genvars

\* lines 347-370: a further call, whose local variables are created anew
Call ==
  /\ pc = "done"
  /\ \E n \in 1..MaxCallLines : \E d \in [1..n -> CallLines] : doc' = d
  /\ pc' = "loop"
  /\ i' = 1
  /\ blockindent' = 0
  /\ argindent' = 1
  /\ out' = << >>
  /\ arg_list' = FALSE
  /\ literal_block' = FALSE
  /\ md_code_snippet' = FALSE
  /\ quote_block' = FALSE
  /\ snippet_indent' = 0
  /\ UNCHANGED content
  /\ UNCHANGED genvars

NextCalls == ProcessLine \/ Return \/ Call

SpecCalls == InitCalls /\ [][NextCalls]_vars

\* C16: in every call, whatever was transpiled before, the parse state
\* before the first line is the initial one, the parse state after k lines
\* is a function of the first k lines of the docstring alone, and the string
\* returned is a function of the docstring alone: two runs over the same
\* docstring step through the same states and return the same output.
C16_NoStateBetweenCalls ==
  /\ pc = "loop" /\ i = 1 => State = Start
  /\ pc = "loop" =>
       \A s \in {RunFrom(Start, SubSeq(doc, 1, i - 1))} :
         \A fld \in DOMAIN Start : State[fld] = s[fld]
  /\ pc = "done" => content = Doc2md(doc)

\* a second run over an argument list, after a call that returned with its
\* ArgList open, has processed its lines as the first run did
C16_Witness ==
  /\ pc = "loop" /\ i = 3
  /\ doc = <<Line(1, ArgsHeader), Line(2, BareArgLine)>>
  /\ content = Doc2md(doc)
  /\ arg_list /\ argindent = 2 /\ blockindent = 1

(***************************************************************************)
(* Termination: docstrings with a line of every kind, the loop running to  *)
(* its end (a sequential program takes its next step: weak fairness).      *)
(***************************************************************************)
TotalLines ==
  {Line(0, ArgsHeader), Line(0, NoteHeader), Line(1, FenceLine),
   Line(0, LiteralLine), Line(1, BulletLine), Line(1, TypedArgLine),
   Line(0, BlankLine), Line(0, DoctestLine)}

InitTotal == IsDocOver(TotalLines) /\ InitState

SpecTotal == InitTotal /\ [][Next]_vars

LiveTotal == SpecTotal /\ WF_vars(Next)

\* the characters of the docstrings and of the text the code inserts
C17_Chars ==
  WordChars \cup {" ", "\n", BT, ":", "-", "(", ")", "<", ">", "/", "*"}

\* C17: every step of the loop consumes the next line, the one at position
\* i, and moves on by one; what was emitted stays; after the last line the
\* function returns a string; and every docstring is processed to the end.
C17_ConsumesEveryLineAndReturns ==
  /\ [][/\ out = SubSeq(out', 1, Len(out))
        /\ \/ /\ pc = "loop" /\ i <= Len(doc)
              /\ i' = i + 1 /\ pc' = "loop"
           \/ /\ pc = "loop" /\ i = Len(doc) + 1
              /\ i' = i /\ pc' = "done"
              /\ content' \in Seq(C17_Chars)]_vars
  /\ []((pc = "loop" /\ i <= Len(doc)) => ENABLED ProcessLine)
  /\ <>(pc = "done")

\* a docstring with a doctest line, a quote header, a :: line and a blank
\* line was processed to its end, with three blocks left open, and a string
\* returned
C17_Witness ==
  /\ pc = "done" /\ i = 5
  /\ doc = <<Line(0, DoctestLine), Line(0, NoteHeader), Line(0, LiteralLine),
             Line(0, BlankLine)>>
  /\ md_code_snippet /\ literal_block /\ quote_block
  /\ content # << >>

(***************************************************************************)
(* The final trimming: indented bullets and text, a fence delimiter and    *)
(* blank lines.                                                            *)
(***************************************************************************)
TrimLines ==
  Indented({BulletLine})
    \cup {Line(0, PlainLine), Line(MaxIndent, PlainLine), Line(0, FenceLine),
          Line(0, BlankLine), Line(MaxIndent, BlankLine)}

InitTrim == IsDocOver(TrimLines) /\ InitState

SpecTrim == InitTrim /\ [][Next]_vars

\* the lines of a text, as separated by its newlines
RECURSIVE C18_LinesFrom(_, _)
C18_LinesFrom(s, cur) ==
  IF s = << >> THEN <<cur>>
  ELSE IF Head(s) = "\n" THEN <<cur>> \o C18_LinesFrom(Tail(s), << >>)
  ELSE C18_LinesFrom(Tail(s), Append(cur, Head(s)))

C18_Lines(s) == C18_LinesFrom(s, << >>)

\* r is e without some whitespace at its end, and does not end with
\* whitespace
C18_RightTrimmed(e, r) ==
  /\ Len(r) <= Len(e)
  /\ r = SubSeq(e, 1, Len(r))
  /\ \A k \in (Len(r) + 1)..Len(e) : IsSpace(e[k])
  /\ r = << >> \/ ~IsSpace(r[Len(r)])
  /\ r # << >> => LeadingSpaces(r) = LeadingSpaces(e)

\* C18: no line of the returned Markdown ends with whitespace, and each is
\* the line the emitter produced without its trailing whitespace: the
\* leading whitespace of a line is as emitted.
C18_OnlyTrailingWhitespaceRemoved ==
  pc = "done" =>
    \A e \in {SplitLines(Join(out))} :
      \A r \in {C18_Lines(content)} :
        /\ \A k \in 1..Len(r) : r[k] = << >> \/ ~IsSpace(r[k][Len(r[k])])
        /\ IF e = << >> THEN content = << >>
           ELSE /\ Len(r) = Len(e)
                /\ \A k \in 1..Len(e) : C18_RightTrimmed(e[k], r[k])

\* a text line, emitted with a space after it, and an indented bullet were
\* returned without the space and with the indentation
C18_Witness ==
  /\ pc = "done"
  /\ doc = <<Line(0, PlainLine), Line(MaxIndent, BulletLine)>>
  /\ Join(out) = PlainLine \o <<" ">> \o NL \o Line(MaxIndent, BulletLine)
  /\ content = PlainLine \o NL \o Line(MaxIndent, BulletLine)

(***************************************************************************)
(* The end of a quote block (docstrings of SpecQuote).                     *)
(***************************************************************************)
\* C19: an open quote block stays open across every line that is not
\* handled as a section header, whatever its kind, and across the end of the
\* input; a section header closes it (and opens a new one if it is a quote
\* header itself).
C19_QuoteEndsOnlyAtHeader ==
  [][(pc = "loop" /\ quote_block) =>
       IF i <= Len(doc) /\ IsHeader(Current.line)
       THEN quote_block' = QuoteTextMatch(Current.line)
       ELSE quote_block']_vars

\* a quote block opened by a header was still open at the end of the input,
\* after a blank line, a fence delimiter and a :: line
C19_Witness ==
  /\ pc = "done"
  /\ doc = <<Line(0, NoteHeader), Line(0, BlankLine), Line(0, FenceLine),
             Line(0, LiteralLine)>>
  /\ quote_block

(***************************************************************************)
(* generate_docs (lines 983-1204).  The file system and the import system  *)
(* are part of the input: a path is a record with                          *)
(*   kind     "dir" (os.path.isdir), "file" (os.path.isfile), "import"     *)
(*            (locate finds an object) or "none" (locate returns None),    *)
(*   name     the path as given,                                           *)
(*   valid    whether pydocstyle accepts it,                               *)
(*   object   the module of a file, or the object an import name denotes,  *)
(*   package  whether that object has a __path__,                          *)
(*   modules  the modules pkgutil.walk_packages yields, in order.          *)
(* A module is a record with its dotted name (a sequence of components),   *)
(* whether it can be loaded, its docstring, and its members: classes and   *)
(* functions, each with its name, the module that defines it, its          *)
(* docstring and whether inspecting it raises; a class has its __init__    *)
(* (none or one) and its methods.  The progress messages printed are left  *)
(* out; the pages and the failure messages are kept.                       *)
(***************************************************************************)
Function(name, module, type, docstring, fails) ==
  [unit |-> "function", name |-> name, module |-> module, type |-> type,
   docstring |-> docstring, fails |-> fails, init |-> << >>,
   members |-> << >>, loads |-> TRUE]

Class(name, module, docstring, fails, init, methods) ==
  [unit |-> "class", name |-> name, module |-> module, type |-> "class",
   docstring |-> docstring, fails |-> fails, init |-> init,
   members |-> methods, loads |-> TRUE]

Module(name, loads, docstring, members) ==
  [unit |-> "module", name |-> name, module |-> name, type |-> "module",
   docstring |-> docstring, fails |-> FALSE, init |-> << >>,
   members |-> members, loads |-> loads]

Path(kind, name, valid, object, package, modules) ==
  [kind |-> kind, name |-> name, valid |-> valid, object |-> object,
   package |-> package, modules |-> modules]

\* Markdown texts: the empty string, the text of a unit (the names of what
\* it documents), the overview (the entries it links)
NoMarkdown ==
  [text |-> "", module |-> << >>, members |-> {}, objects |-> << >>]

PageOf(m, members) ==
  [text |-> "page", module |-> m.module, members |-> members,
   objects |-> << >>]

\* an entry of generated_objects: type, full name, module (lines 609-618,
\* 664-673, 786-795)
Entry(type, full_name, module) ==
  [type |-> type, full_name |-> full_name, module |-> module]

OverviewTypes == <<"module", "class", "function">>

\* lines 929-980: one list of links for each of the three types, made of
\* the entries of that type
Overview2md(objects) ==
  [text |-> "overview", module |-> << >>, members |-> {},
   objects |->
     Join([t \in 1..Len(OverviewTypes) |->
             SelectSeq(objects, LAMBDA e : e.type = OverviewTypes[t])])]

\* line 40
IgnoreGenerationInstruction ==
  <<"l","a","z","y","d","o","c","s",":"," ","i","g","n","o","r","e">>

\* p in s
RECURSIVE Contains(_, _)
Contains(s, p) ==
  IF StartsWith(s, p) THEN TRUE
  ELSE IF s = << >> THEN FALSE
  ELSE Contains(Tail(s), p)

\* mutant: the marker is looked for as it is written, letter case and
\* spaces included
IsObjectIgnoredAsWritten(m) ==
  Contains(m.docstring, IgnoreGenerationInstruction)

\* lines 307-314
IsObjectIgnored(m) ==
  Contains(LowerStr(Replace(m.docstring, <<" ">>, << >>)),
           LowerStr(Replace(IgnoreGenerationInstruction, <<" ">>, << >>)))

\* the first result of rs that raised (Len + 1 if none did)
FirstFailure(rs) ==
  LET failing == {k \in 1..Len(rs) : rs[k].raised}
  IN  IF failing = {} THEN Len(rs) + 1
      ELSE CHOOSE k \in failing : \A j \in failing : k <= j

\* what a sequence of calls gives together: the exception of the first call
\* that raises, the entries appended up to there, the texts returned
Together(rs) ==
  LET n == FirstFailure(rs)
      last == IF n <= Len(rs) THEN n ELSE Len(rs)
  IN  [raised |-> n <= Len(rs),
       members |-> UNION {rs[k].md.members : k \in 1..Len(rs)},
       objects |-> Join([k \in 1..last |-> rs[k].objects])]

\* lines 558-639: the text of a function or method, empty if ignored; the
\* signature is inspected (line 593) before the entry is appended (line 609)
Func2md(func, clsname) ==
  IF IsObjectIgnored(func)
  THEN [raised |-> FALSE, md |-> NoMarkdown, objects |-> << >>]
  ELSE IF func.fails
  THEN [raised |-> TRUE, md |-> NoMarkdown, objects |-> << >>]
  ELSE [raised |-> FALSE,
        md |-> PageOf(func, {clsname \o <<func.name>>}),
        objects |-> <<Entry(func.type, clsname \o <<func.name>>, func.module)>>]

\* lines 675-686: __init__ is documented if the class's module defines it;
\* a ValueError or TypeError of its inspection is caught
InitMd(cls) ==
  IF cls.init = << >> \/ cls.init[1].module # cls.module \/ cls.init[1].fails
  THEN [raised |-> FALSE, md |-> NoMarkdown, objects |-> << >>]
  ELSE Func2md(cls.init[1], <<cls.name>>)

\* lines 729-741: the methods documented are those with a public name that
\* the class's module defines
IsOwnMethod(cls, k) ==
  /\ ~StartsWith(cls.members[k].name, <<"_">>)
  /\ cls.members[k].module = cls.module

\* lines 641-764: the text of a class, empty if ignored; the entry is
\* appended (line 664) before the members are inspected (line 698)
Class2md(cls) ==
  LET own == SelectSeq([k \in 1..Len(cls.members) |->
                          [method |-> cls.members[k], own |-> IsOwnMethod(cls, k)]],
                       LAMBDA x : x.own)
      rs == <<InitMd(cls)>>
              \o [k \in 1..Len(own) |-> Func2md(own[k].method, <<cls.name>>)]
      all == Together(rs)
      entry == <<Entry("class", <<cls.name>>, cls.module)>>
  IN  IF IsObjectIgnored(cls)
      THEN [raised |-> FALSE, md |-> NoMarkdown, objects |-> << >>]
      ELSE IF cls.fails
      THEN [raised |-> TRUE, md |-> NoMarkdown,
            objects |-> entry \o InitMd(cls).objects]
      ELSE [raised |-> all.raised,
            md |-> PageOf(cls, {<<cls.name>>} \cup all.members),
            objects |-> entry \o all.objects]

\* lines 797-811 and 839-850: the members documented are those with a public
\* name that the module defines
IsOwnMember(m, k) ==
  /\ ~StartsWith(m.members[k].name, <<"_">>)
  /\ m.members[k].module = m.name

\* lines 766-907: the page of a module, empty if ignored: the classes, then
\* the functions; or the exception of the first member that fails, with the
\* entries appended to generated_objects on the way
Module2md(m) ==
  LET own == SelectSeq([k \in 1..Len(m.members) |->
                          [member |-> m.members[k], own |-> IsOwnMember(m, k)]],
                       LAMBDA x : x.own)
      classes == SelectSeq(own, LAMBDA x : x.member.unit = "class")
      functions == SelectSeq(own, LAMBDA x : x.member.unit = "function")
      rs == [k \in 1..Len(classes) |-> Class2md(classes[k].member)]
              \o [k \in 1..Len(functions) |->
                    Func2md(functions[k].member, << >>)]
      all == Together(rs)
  IN  IF IsObjectIgnored(m)
      THEN [raised |-> FALSE, md |-> NoMarkdown, objects |-> << >>]
      ELSE [raised |-> all.raised,
            md |-> PageOf(m, {m.name} \cup all.members),
            objects |-> <<Entry("module", m.name, m.name)>> \o all.objects]

\* lines 909-927
Import2md(obj) ==
  CASE obj.unit = "class" -> Class2md(obj)
    [] obj.unit = "module" -> Module2md(obj)
    [] OTHER -> Func2md(obj, << >>)

\* lines 234-272: an empty text is not written
ToMdFile(files, md, filename) ==
  IF md = NoMarkdown THEN files ELSE Append(files, [file |-> filename, md |-> md])

\* s is sequence p followed by at least one more element
IsBelow(s, p) == Len(s) > Len(p) /\ SubSeq(s, 1, Len(p)) = p

\* mutant: only the modules named in the list are ignored, not those below
IsModuleIgnoredByNameOnly(module_name, ignored) ==
  \/ StartsWith(module_name[Len(module_name)], <<"_">>)
  \/ \E k \in 1..Len(ignored) : module_name = ignored[k]

\* lines 317-330
IsModuleIgnored(module_name, ignored) ==
  \/ StartsWith(module_name[Len(module_name)], <<"_">>)
  \/ \E k \in 1..Len(ignored) :
        module_name = ignored[k] \/ IsBelow(module_name, ignored[k])

Failed(module_name) == [failed |-> module_name]
Passed(name) == [passed |-> name]
Printed(md) == [page |-> md]

OverviewFile == <<"overview", ".md">>
PagesFile == <<".pages">>

\* _doc2md is not running
DocIdle ==
  /\ doc = << >>
  /\ pc = "idle"
  /\ i = 1
  /\ blockindent = 0
  /\ argindent = 1
  /\ out = << >>
  /\ arg_list = FALSE
  /\ literal_block = FALSE
  /\ md_code_snippet = FALSE
  /\ quote_block = FALSE
  /\ snippet_indent = 0
  /\ content = << >>

\* lines 1007-1046: the call of generate_docs on 1..MaxPaths paths, with one
\* of the given lists of ignored modules
InitGenerate(pathset, ignoredset) ==
  /\ DocIdle
  /\ \E n \in 1..MaxPaths : paths \in [1..n -> pathset]
  /\ validate \in BOOLEAN
  /\ overview_file \in BOOLEAN
  /\ stdout_mode \in BOOLEAN
  /\ gpc = "paths"
  /\ path_no = 1
  /\ module_no = 1
  /\ ignored_modules \in ignoredset
  /\ generated_objects = << >>
  /\ written = << >>
  /\ printed = << >>
  /\ called = << >>
  /\ returned = << >>

\* the page goes to stdout or to a file (lines 1078-1086 and the like)
Output(md, filename) ==
  IF stdout_mode
  THEN printed' = Append(printed, Printed(md)) /\ UNCHANGED written
  ELSE written' = ToMdFile(written, md, filename) /\ UNCHANGED printed

\* lines 1047-1054: validation of the next path
ValidatePath ==
  /\ gpc = "paths" /\ path_no <= Len(paths) /\ validate
  /\ LET path == paths[path_no]
         located == \/ path.kind = "dir"
                    \/ path.kind = "import" /\ path.object.loads
     IN  IF located /\ path.valid
         THEN /\ printed' = Append(printed, Passed(path.name))
              /\ path_no' = path_no + 1
              /\ UNCHANGED gpc
         ELSE /\ gpc' = "raised"
              /\ UNCHANGED <<printed, path_no>>
  /\ UNCHANGED <<paths, validate, overview_file, stdout_mode, module_no,
                 ignored_modules, generated_objects, written>>
  /\ UNCHANGED docvars
  /\ UNCHANGED callvars

\* lines 1056-1061: the next path is a directory
EnterDirectory ==
  /\ gpc = "paths" /\ path_no <= Len(paths) /\ ~validate
  /\ paths[path_no].kind = "dir"
  /\ gpc' = "walk"
  /\ module_no' = 1
  /\ UNCHANGED <<paths, validate, overview_file, stdout_mode, path_no,
                 ignored_modules, generated_objects, written, printed>>
  /\ UNCHANGED docvars
  /\ UNCHANGED callvars

\* lines 1061-1090 and 1140-1174: the next module of the walk
WalkModule ==
  /\ gpc = "walk" /\ module_no <= Len(paths[path_no].modules)
  /\ LET m == paths[path_no].modules[module_no]
         r == Module2md(m)
     IN  IF IsModuleIgnored(m.name, ignored_modules)
         THEN /\ ignored_modules' = Append(ignored_modules, m.name)
              /\ UNCHANGED <<generated_objects, written, printed>>
         ELSE IF ~m.loads
         THEN /\ printed' = Append(printed, Failed(m.name))
              /\ UNCHANGED <<ignored_modules, generated_objects, written>>
         ELSE /\ generated_objects' = generated_objects \o r.objects
              /\ IF r.raised
                 THEN /\ printed' = Append(printed, Failed(m.name))
                      /\ UNCHANGED <<ignored_modules, written>>
                 ELSE IF r.md = NoMarkdown
                 THEN /\ ignored_modules' = Append(ignored_modules, m.name)
                      /\ UNCHANGED <<written, printed>>
                 ELSE /\ Output(r.md, m.name)
                      /\ UNCHANGED ignored_modules
  /\ module_no' = module_no + 1
  /\ UNCHANGED <<paths, validate, overview_file, stdout_mode, gpc, path_no>>
  /\ UNCHANGED docvars
  /\ UNCHANGED callvars

\* the end of a walk: on to the next path
LeaveWalk ==
  /\ gpc = "walk" /\ module_no > Len(paths[path_no].modules)
  /\ gpc' = "paths"
  /\ path_no' = path_no + 1
  /\ UNCHANGED <<paths, validate, overview_file, stdout_mode, module_no,
                 ignored_modules, generated_objects, written, printed>>
  /\ UNCHANGED docvars
  /\ UNCHANGED callvars

\* lines 1091-1117: the next path is a file
GenerateFile ==
  /\ gpc = "paths" /\ path_no <= Len(paths) /\ ~validate
  /\ paths[path_no].kind = "file"
  /\ LET m == paths[path_no].object
         r == Module2md(m)
     IN  IF ~m.loads
         THEN /\ gpc' = "raised"
              /\ UNCHANGED <<path_no, generated_objects, written, printed>>
         ELSE /\ generated_objects' = generated_objects \o r.objects
              /\ IF r.raised
                 THEN /\ gpc' = "raised"
                      /\ UNCHANGED <<path_no, written, printed>>
                 ELSE /\ Output(r.md, paths[path_no].name)
                      /\ path_no' = path_no + 1
                      /\ UNCHANGED gpc
  /\ UNCHANGED <<paths, validate, overview_file, stdout_mode, module_no,
                 ignored_modules>>
  /\ UNCHANGED docvars
  /\ UNCHANGED callvars

\* lines 1118-1182: the next path is an import name that locate resolves
GenerateImport ==
  /\ gpc = "paths" /\ path_no <= Len(paths) /\ ~validate
  /\ paths[path_no].kind = "import"
  /\ LET obj == paths[path_no].object
         r == Import2md(obj)
     IN  IF ~obj.loads
         THEN /\ gpc' = "raised"
              /\ UNCHANGED <<path_no, module_no, generated_objects, written,
                             printed>>
         ELSE /\ generated_objects' = generated_objects \o r.objects
              /\ IF r.raised
                 THEN /\ gpc' = "raised"
                      /\ UNCHANGED <<path_no, module_no, written, printed>>
                 ELSE /\ Output(r.md, paths[path_no].name)
                      /\ IF paths[path_no].package
                         THEN /\ gpc' = "walk"
                              /\ module_no' = 1
                              /\ UNCHANGED path_no
                         ELSE /\ path_no' = path_no + 1
                              /\ UNCHANGED <<gpc, module_no>>
  /\ UNCHANGED <<paths, validate, overview_file, stdout_mode, ignored_modules>>
  /\ UNCHANGED docvars
  /\ UNCHANGED callvars

\* mutant: a path that cannot be resolved is passed over
UnresolvableSkipped ==
  /\ gpc = "paths" /\ path_no <= Len(paths) /\ ~validate
  /\ paths[path_no].kind = "none"
  /\ path_no' = path_no + 1
  /\ UNCHANGED <<paths, validate, overview_file, stdout_mode, gpc,
                 module_no, ignored_modules, generated_objects, written,
                 printed>>
  /\ UNCHANGED docvars
  /\ UNCHANGED callvars

\* lines 1183-1184: the next path is nothing that can be resolved
Unresolvable ==
  /\ gpc = "paths" /\ path_no <= Len(paths) /\ ~validate
  /\ paths[path_no].kind = "none"
  /\ gpc' = "raised"
  /\ UNCHANGED <<paths, validate, overview_file, stdout_mode, path_no,
                 module_no, ignored_modules, generated_objects, written,
                 printed>>
  /\ UNCHANGED docvars
  /\ UNCHANGED callvars

\* lines 1186-1204: after the last path
Finish ==
  /\ gpc = "paths" /\ path_no > Len(paths)
  /\ gpc' = "done"
  /\ IF ~validate /\ overview_file /\ ~stdout_mode
     THEN written' = Append(ToMdFile(written, Overview2md(generated_objects),
                                     OverviewFile),
                            [file |-> PagesFile, md |-> NoMarkdown])
     ELSE UNCHANGED written
  /\ UNCHANGED <<paths, validate, overview_file, stdout_mode, path_no,
                 module_no, ignored_modules, generated_objects, printed>>
  /\ UNCHANGED docvars
  /\ UNCHANGED callvars

NextGenerate ==
  \/ ValidatePath \/ EnterDirectory \/ WalkModule \/ LeaveWalk
  \/ GenerateFile \/ GenerateImport \/ Unresolvable \/ Finish

(***************************************************************************)
(* Failures during generation: modules with a member whose generation      *)
(* raises, under every kind of path.                                       *)
(***************************************************************************)
NameA == <<"a">>
NameB == <<"b">>
NameC == <<"c">>

PlainDocstring == <<"D", "o", "c", ".">>

GoodFunction(name, module) ==
  Function(name, module, "function", PlainDocstring, FALSE)

FlawedFunction(name, module) ==
  Function(name, module, "function", PlainDocstring, TRUE)

GoodModule(name) ==
  Module(name, TRUE, PlainDocstring, <<GoodFunction(<<"f">>, name)>>)

FlawedModule(name) ==
  Module(name, TRUE, PlainDocstring,
         <<GoodFunction(<<"f">>, name), FlawedFunction(<<"g">>, name),
           GoodFunction(<<"h">>, name)>>)

PackageDirectory ==
  Path("dir", <<"p", "k", "g">>, TRUE, GoodModule(<<NameA>>), FALSE,
       <<GoodModule(<<NameA>>), FlawedModule(<<NameB>>), GoodModule(<<NameC>>)>>)

FlawedFile ==
  Path("file", <<"b", ".", "p", "y">>, TRUE, FlawedModule(<<NameB>>), FALSE, << >>)

GoodFile ==
  Path("file", <<"c", ".", "p", "y">>, TRUE, GoodModule(<<NameC>>), FALSE, << >>)

ImportedPackage ==
  Path("import", <<"a">>, TRUE, GoodModule(<<NameA>>), TRUE,
       <<FlawedModule(<<NameA, NameB>>), GoodModule(<<NameA, NameC>>)>>)

ImportedObject ==
  Path("import", <<"b">>, FALSE, FlawedModule(<<NameB>>), FALSE, << >>)

UnknownPath ==
  Path("none", <<"z">>, FALSE, GoodModule(<<NameA>>), FALSE, << >>)

FailurePaths ==
  {PackageDirectory, FlawedFile, GoodFile, ImportedPackage, ImportedObject,
   UnknownPath}

InitFailures == InitGenerate(FailurePaths, {<< >>})

SpecFailures == InitFailures /\ [][NextGenerate]_vars

\* the modules (or objects) a path asks documentation for
C20_Units(path) ==
  CASE path.kind = "dir" -> {path.modules[k] : k \in 1..Len(path.modules)}
    [] path.kind = "file" -> {path.object}
    [] path.kind = "import" ->
         {path.object} \cup
           (IF path.package
            THEN {path.modules[k] : k \in 1..Len(path.modules)} ELSE {})
    [] OTHER -> {}

\* the pages written to files or printed
C20_Pages ==
  {written[k].md : k \in 1..Len(written)}
    \cup {printed[k].page :
            k \in {j \in 1..Len(printed) : "page" \in DOMAIN printed[j]}}

\* the run generates documentation and every path can be resolved
C20_Resolvable ==
  /\ ~validate
  /\ \A k \in 1..Len(paths) : paths[k].kind # "none"

\* C20 (as claimed): when the generation of a member fails, the run is not
\* stopped, whatever the kind of the path: at its end every module of every
\* path has its page, made of its members but for the failing ones, and the
\* failure was logged.
C20_FailuresSkipOnlyTheMember ==
  C20_Resolvable =>
    /\ gpc # "raised"
    /\ gpc = "done" =>
         \A k \in 1..Len(paths) : \A m \in C20_Units(paths[k]) :
           /\ \E page \in C20_Pages :
                 /\ page.module = m.name
                 /\ page.members =
                      {m.name} \cup {<<m.members[j].name>> :
                                       j \in {l \in 1..Len(m.members) :
                                                ~m.members[l].fails}}
           /\ Module2md(m).raised =>
                \E j \in 1..Len(printed) : printed[j] = Failed(m.name)

\* the next path to process is neither a directory, a file nor an import name
C21_AtUnresolvable ==
  gpc = "paths" /\ path_no <= Len(paths) /\ paths[path_no].kind = "none"

\* the overview file or the .pages file is among the files written so far:
\* the only files with the overview text or with no Markdown text at all
C21_OverviewWritten ==
  \E k \in 1..Len(written) : written[k].md.text \in {"overview", ""}

\* C21: at a path that is neither a directory, a file nor a resolvable import
\* name the run raises; after that nothing happens any more: no later path is
\* processed, neither the overview file nor the .pages file is written, and
\* the files written for the earlier paths stay as they are.
C21_UnresolvablePathAborts ==
  /\ [][C21_AtUnresolvable =>
          /\ gpc' = "raised"
          /\ path_no' = path_no
          /\ written' = written
          /\ generated_objects' = generated_objects]_vars
  /\ [][gpc # "raised"]_vars
  /\ [](gpc = "raised" => ~C21_OverviewWritten)

C21_Witness ==
  /\ gpc = "raised"
  /\ Len(paths) = 3
  /\ path_no = 2
  /\ paths[2].kind = "none"
  /\ ~validate /\ overview_file /\ ~stdout_mode
  /\ Len(written) = 1

(***************************************************************************)
(* Direct calls on one MarkdownGenerator: func2md, class2md, module2md and *)
(* overview2md in any order, on units with and without the ignore marker.  *)
(***************************************************************************)
\* a docstring that holds the marker in another letter case and with other
\* spaces, and one that only comes near it
MarkedDocstring ==
  <<"D", "o", "c", ".", " ", "L", "a", "z", "y", "d", "o", "c", "s", ":",
    " ", " ", "I", "G", "N", "O", "R", "E">>

UnmarkedDocstring ==
  <<"l", "a", "z", "y", "d", "o", "c", "s", " ", "i", "g", "n", "o", "r", "e">>

InitName == <<"_", "_", "i", "n", "i", "t", "_", "_">>

Method(name, module, type, docstring) ==
  Function(name, module, type, docstring, FALSE)

PlainClass ==
  Class(<<"K">>, <<NameA>>, PlainDocstring, FALSE,
        <<Method(InitName, <<NameA>>, "method", PlainDocstring)>>,
        <<Method(<<"m">>, <<NameA>>, "method", PlainDocstring),
          Method(<<"n">>, <<NameA>>, "classmethod", UnmarkedDocstring),
          Method(<<"o">>, <<NameA>>, "method", MarkedDocstring)>>)

IgnoredClass ==
  Class(<<"L">>, <<NameA>>, MarkedDocstring, FALSE,
        <<Method(InitName, <<NameA>>, "method", PlainDocstring)>>,
        <<Method(<<"p">>, <<NameA>>, "method", PlainDocstring)>>)

IgnoredFunction ==
  Function(<<"g">>, <<NameA>>, "function", MarkedDocstring, FALSE)

PlainModule ==
  Module(<<NameA>>, TRUE, PlainDocstring,
         <<PlainClass, IgnoredClass, GoodFunction(<<"f">>, <<NameA>>),
           IgnoredFunction>>)

IgnoredModule ==
  Module(<<NameB>>, TRUE, MarkedDocstring,
         <<Class(<<"Q">>, <<NameB>>, PlainDocstring, FALSE, << >>,
                 <<Method(<<"r">>, <<NameB>>, "method", PlainDocstring)>>),
           GoodFunction(<<"s">>, <<NameB>>)>>)

GeneratorFunctions ==
  {GoodFunction(<<"f">>, <<NameA>>), IgnoredFunction,
   Method(<<"m">>, <<NameA>>, "method", PlainDocstring)}

GeneratorClasses == {PlainClass, IgnoredClass}

GeneratorModules == {PlainModule, IgnoredModule}

\* lines 475-493: a new generator, nothing generated yet
InitGenerator ==
  /\ DocIdle
  /\ paths = << >>
  /\ validate = FALSE
  /\ overview_file = FALSE
  /\ stdout_mode = FALSE
  /\ gpc = "generator"
  /\ path_no = 1
  /\ module_no = 1
  /\ ignored_modules = << >>
  /\ generated_objects = << >>
  /\ written = << >>
  /\ printed = << >>
  /\ called = << >>
  /\ returned = << >>

\* a call of func2md (lines 558-639): the entries are appended, the text is returned unless the
\* call raised
CallFunc2md ==
  /\ gpc = "generator"
  /\ Len(generated_objects) < MaxEntries
  /\ \E func \in GeneratorFunctions : \E r \in {Func2md(func, << >>)} :
        /\ called' = <<func>>
        /\ generated_objects' = generated_objects \o r.objects
        /\ IF r.raised THEN UNCHANGED returned ELSE returned' = <<r.md>>
  /\ UNCHANGED <<paths, validate, overview_file, stdout_mode, gpc, path_no,
                 module_no, ignored_modules, written, printed>>
  /\ UNCHANGED docvars

\* a call of class2md (lines 641-764): the entries are appended, the text is returned unless the
\* call raised
CallClass2md ==
  /\ gpc = "generator"
  /\ Len(generated_objects) < MaxEntries
  /\ \E cls \in GeneratorClasses : \E r \in {Class2md(cls)} :
        /\ called' = <<cls>>
        /\ generated_objects' = generated_objects \o r.objects
        /\ IF r.raised THEN UNCHANGED returned ELSE returned' = <<r.md>>
  /\ UNCHANGED <<paths, validate, overview_file, stdout_mode, gpc, path_no,
                 module_no, ignored_modules, written, printed>>
  /\ UNCHANGED docvars

\* a call of module2md (lines 766-907): the entries are appended, the text is returned unless the
\* call raised
CallModule2md ==
  /\ gpc = "generator"
  /\ Len(generated_objects) < MaxEntries
  /\ \E m \in GeneratorModules : \E r \in {Module2md(m)} :
        /\ called' = <<m>>
        /\ generated_objects' = generated_objects \o r.objects
        /\ IF r.raised THEN UNCHANGED returned ELSE returned' = <<r.md>>
  /\ UNCHANGED <<paths, validate, overview_file, stdout_mode, gpc, path_no,
                 module_no, ignored_modules, written, printed>>
  /\ UNCHANGED docvars

\* a call of overview2md (lines 929-980)
CallOverview2md ==
  /\ gpc = "generator"
  /\ called' = << >>
  /\ returned' = <<Overview2md(generated_objects)>>
  /\ UNCHANGED <<paths, validate, overview_file, stdout_mode, gpc, path_no,
                 module_no, ignored_modules, generated_objects, written,
                 printed>>
  /\ UNCHANGED docvars

NextGenerator ==
  CallFunc2md \/ CallClass2md \/ CallModule2md \/ CallOverview2md

SpecGenerator == InitGenerator /\ [][NextGenerator]_vars

\* the full names of the units that hold the marker and of all that is
\* documented under one: they name nothing else among the units called
C22_Suppressed ==
  {<< <<"g">> >>, << <<"L">> >>, << <<"L">>, InitName >>, << <<"L">>, <<"p">> >>,
   << <<"K">>, <<"o">> >>, <<NameB>>, << <<"Q">> >>, << <<"Q">>, <<"r">> >>,
   << <<"s">> >>}

\* C22: a call of func2md, class2md or module2md on a unit whose docstring
\* holds the ignore marker, whatever its letter case and spaces, returns the
\* empty text and leaves generated_objects as it was; such a unit, and all
\* that belongs to an ignored class or module, is in no text returned and in
\* no entry, hence in no overview.
C22_IgnoredUnitLeavesNoTrace ==
  /\ [][(called' # << >> /\ called'[1].docstring = MarkedDocstring) =>
             /\ returned' = <<NoMarkdown>>
             /\ generated_objects' = generated_objects]_vars
  /\ [](/\ \A k \in 1..Len(generated_objects) :
             generated_objects[k].full_name \notin C22_Suppressed
        /\ \A k \in 1..Len(returned) :
             /\ returned[k].members \cap C22_Suppressed = {}
             /\ \A j \in 1..Len(returned[k].objects) :
                  returned[k].objects[j].full_name \notin C22_Suppressed)

C22_Witness ==
  /\ called = <<IgnoredClass>>
  /\ returned = <<NoMarkdown>>
  /\ \E k \in 1..Len(generated_objects) :
        generated_objects[k].full_name = << <<"K">>, <<"m">> >>

\* how often entry e occurs in the sequence entries
C23_Count(entries, e) ==
  Cardinality({k \in 1..Len(entries) : entries[k] = e})

\* C23 (as claimed): the overview links every entry of generated_objects
\* exactly once, whatever its type.
C23_OverviewLinksEveryEntry ==
  \A k \in 1..Len(returned) :
    returned[k].text = "overview" =>
      \A j \in 1..Len(generated_objects) :
        C23_Count(returned[k].objects, generated_objects[j])
          = C23_Count(generated_objects, generated_objects[j])

(***************************************************************************)
(* Package walks: modules that are skipped, and modules below them.        *)
(***************************************************************************)
NameP == <<"_", "p">>
NameQ == <<"q">>
NameR == <<"r">>
NameX == <<"x">>

MarkedModule(name) ==
  Module(name, TRUE, MarkedDocstring, <<GoodFunction(<<"f">>, name)>>)

\* a directory with a private package, a package whose docstring holds the
\* ignore marker, and a plain module
WalkedDirectory ==
  Path("dir", <<"s", "r", "c">>, TRUE, GoodModule(<<NameR>>), FALSE,
       <<GoodModule(<<NameP>>), GoodModule(<<NameP, NameX>>),
         MarkedModule(<<NameQ>>), GoodModule(<<NameQ, NameX>>),
         GoodModule(<<NameR>>)>>)

\* a directory with packages q and c, both plain
LaterDirectory ==
  Path("dir", <<"l", "i", "b">>, TRUE, GoodModule(<<NameQ>>), FALSE,
       <<GoodModule(<<NameC>>), GoodModule(<<NameC, NameX>>),
         GoodModule(<<NameQ>>), GoodModule(<<NameQ, NameX>>)>>)

\* an imported package with the same kinds of modules
WalkedPackage ==
  Path("import", <<"a">>, TRUE, GoodModule(<<NameA>>), TRUE,
       <<GoodModule(<<NameA, NameP>>), GoodModule(<<NameA, NameP, NameX>>),
         MarkedModule(<<NameA, NameQ>>), GoodModule(<<NameA, NameQ, NameX>>),
         GoodModule(<<NameA, NameR>>)>>)

WalkPaths ==
  {WalkedDirectory, LaterDirectory, WalkedPackage, GoodFile, UnknownPath}

IgnoreLists == {<< >>, << <<NameC>> >>}

InitWalk == InitGenerate(WalkPaths, IgnoreLists)

SpecWalk == InitWalk /\ [][NextGenerate]_vars

\* the step handles a module of a package walk
C29_Visit == gpc = "walk" /\ module_no' = module_no + 1

C29_Visited == paths[path_no].modules[module_no]

\* name is in the list or below one of its entries
C29_InOrBelow(name, list) ==
  \E k \in 1..Len(list) :
     \/ name = list[k]
     \/ Len(name) > Len(list[k]) /\ SubSeq(name, 1, Len(list[k])) = list[k]

\* the module visited is one to skip: a private name, a name in or below the
\* ignore list, or a docstring with the ignore marker (an empty Markdown)
C29_ToSkip ==
  \/ Head(C29_Visited.name[Len(C29_Visited.name)]) = "_"
  \/ C29_InOrBelow(C29_Visited.name, ignored_modules)
  \/ C29_Visited.docstring = MarkedDocstring

\* C29: in a package walk a module that is skipped is added to the ignore
\* list; a module visited later, in this walk or a later one, whose name is
\* below a name of the list is skipped too; for a skipped module nothing is
\* written or printed; the ignore list only grows.
C29_SkippedModulesStaySkipped ==
  /\ [][/\ Len(ignored_modules') >= Len(ignored_modules)
        /\ SubSeq(ignored_modules', 1, Len(ignored_modules)) = ignored_modules]_vars
  /\ [][(C29_Visit /\ C29_ToSkip) =>
          /\ ignored_modules' = Append(ignored_modules, C29_Visited.name)
          /\ written' = written
          /\ printed' = printed
          /\ generated_objects' = generated_objects]_vars

C29_Witness ==
  /\ gpc = "walk" /\ path_no = 2 /\ module_no = 5
  /\ paths[1] = WalkedDirectory /\ paths[2] = LaterDirectory
  /\ ~validate /\ ~stdout_mode
  /\ ignored_modules
       = <<<<NameP>>, <<NameP, NameX>>, <<NameQ>>, <<NameQ, NameX>>,
           <<NameQ>>, <<NameQ, NameX>>>>
  /\ Len(written) = 3

\* the pages written or printed so far
C30_Pages ==
  {written[k].md : k \in 1..Len(written)}
    \cup {printed[k].page :
            k \in {j \in 1..Len(printed) : "page" \in DOMAIN printed[j]}}

\* the modules of a path that are not to be skipped in a run that starts
\* with an empty ignore list
C30_Modules(path) ==
  {m \in {path.modules[k] : k \in 1..Len(path.modules)} \cup
         (IF path.kind = "dir" THEN {} ELSE {path.object}) :
     /\ m.docstring # MarkedDocstring
     /\ \A k \in 1..Len(m.name) : Head(m.name[k]) # "_"
     /\ \A k \in 1..Len(path.modules) :
          path.modules[k].docstring = MarkedDocstring =>
            ~C29_InOrBelow(m.name, <<path.modules[k].name>>)}

\* C30 (as claimed): with validate set, a run that ends without a failure has
\* generated the page of every module of every path, and the overview file
\* when one is asked for.
C30_ValidatedPathsAreGenerated ==
  (validate /\ gpc = "done" /\ ignored_modules = << >>) =>
     /\ \A k \in 1..Len(paths) : \A m \in C30_Modules(paths[k]) :
          \E page \in C30_Pages : page.module = m.name
     /\ (overview_file /\ ~stdout_mode) =>
          \E k \in 1..Len(written) : written[k].md.text = "overview"

(***************************************************************************)
(* Literal blocks: what is left open, and the lines of their content.      *)
(***************************************************************************)
\* the number of occurrences of p in s, left to right without overlap
RECURSIVE C24_Occurrences(_, _)
C24_Occurrences(s, p) ==
  IF s = << >> THEN 0
  ELSE IF StartsWith(s, p) THEN 1 + C24_Occurrences(Drop(s, Len(p)), p)
  ELSE C24_Occurrences(Tail(s), p)

\* the opening fences emitted for :: lines: each rewritten :: is one
RECURSIVE C24_Openings(_)
C24_Openings(fragments) ==
  IF fragments = << >> THEN 0
  ELSE C24_Occurrences(Head(fragments), LiteralOpen)
         + C24_Openings(Tail(fragments))

\* the closing fences emitted for literal blocks: the fragments that begin
\* with the closing fence and its newline
RECURSIVE C24_Closings(_)
C24_Closings(fragments) ==
  IF fragments = << >> THEN 0
  ELSE (IF StartsWith(Head(fragments), LiteralClose) THEN 1 ELSE 0)
         + C24_Closings(Tail(fragments))

\* C24 (as claimed): when _doc2md returns, as many closing fences have been
\* emitted for literal blocks as opening fences for :: lines.
C24_NoLiteralLeftOpen ==
  pc = "done" => C24_Openings(out) = C24_Closings(out)

\* the current line is content of an open literal block outside a fence: not
\* blank, indented deeper than blockindent, none of the kinds tested before
C25_LiteralContent(k) ==
  /\ NonBlank(doc[k])
  /\ ~IsHeaderText(doc[k]) /\ ~IsFenceText(doc[k]) /\ ~IsLiteralText(doc[k])
  /\ ~IsBulletText(doc[k]) /\ ~IsDoctestText(doc[k])

\* C25 (as claimed): a content line of an open literal block that follows
\* another one is emitted on an output line of its own with its indentation:
\* the output then ends with a newline and the line as it was given.
C25_LiteralLinesStaySeparate ==
  [][(/\ pc = "loop" /\ i <= Len(doc) /\ i > 1
      /\ literal_block /\ ~md_code_snippet /\ ~quote_block
      /\ literal_block'
      /\ LineIndent(doc[i]) > blockindent
      /\ LineIndent(doc[i - 1]) > blockindent
      /\ C25_LiteralContent(i) /\ C25_LiteralContent(i - 1))
       => \A text \in {Join(out')} : EndsWith(text, NL \o doc[i])]_vars

(***************************************************************************)
(* The indentations kept between lines: argindent, snippet_indent and      *)
(* blockindent.                                                            *)
(***************************************************************************)
\* C26 (as claimed): a section-header line sets argindent back to its
\* initial value, so that no section sees the argument indentation of an
\* earlier one.
C26_HeaderResetsArgindent ==
  [][(pc = "loop" /\ i <= Len(doc) /\ LineKind(Current) = "header")
       => argindent' = Start.argindent]_vars

\* C27 (as claimed): inside a fenced-code span the line loses whitespace
\* only when snippet_indent is removed from its start, and a fence delimiter
\* is still recognised: it closes the span.
C27_OnlyWhitespaceRemoved ==
  [][(pc = "loop" /\ i <= Len(doc) /\ md_code_snippet)
       => /\ LStrip(Unindent(doc[i], md_code_snippet, literal_block,
                             snippet_indent)) = LStrip(doc[i])
          /\ IsFenceText(doc[i]) => ~md_code_snippet']_vars

IndentLines ==
  {Line(0, ArgsHeader), Line(1, ArgsHeader), Line(0, FenceLine),
   Line(MaxIndent, LiteralLine), Line(MaxIndent, BulletLine),
   Line(MaxIndent, BareArgLine), Line(0, PlainLine), Line(MaxIndent, PlainLine)}

InitIndent == IsDocOver(IndentLines) /\ InitState

SpecIndent == InitIndent /\ [][Next]_vars

\* C28: blockindent starts at 0, a line handled as a section header sets it
\* to its own indentation, and a line of any other kind leaves it as it is:
\* at every line it is the indentation of the most recent header, or 0.
C28_OnlyHeadersSetBlockindent ==
  /\ [](pc = "loop" /\ i = 1 => blockindent = 0)
  /\ [][(pc = "loop" /\ i <= Len(doc)) =>
          IF LineKind(Current) = "header"
          THEN blockindent' = LineIndent(doc[i])
          ELSE blockindent' = blockindent]_vars
  /\ [][pc # "loop" \/ i > Len(doc) => blockindent' = blockindent]_vars

C28_Witness ==
  /\ pc = "loop" /\ i = 4
  /\ doc[1] = Line(1, ArgsHeader)
  /\ doc[2] = Line(MaxIndent, LiteralLine)
  /\ doc[3] = Line(MaxIndent, PlainLine)
  /\ literal_block /\ blockindent = 1
====
